---- MODULE Spec2Model ----
(***************************************************************************)
(* Model of the DCMA analyzer of src/app.py (class DCMAAnalyzer).          *)
(*                                                                         *)
(* Encoding.                                                               *)
(*  - An optional attribute (Python None or a value) is a sequence: <<>>   *)
(*    is None, <<v>> is the value v.                                       *)
(*  - A score is kept in hundredths (cents): round(x, 2) = 75.0 is 7500.   *)
(*    Every score of the analyzer is a rational rounded to two decimals,   *)
(*    so hundredths are exact. round() is modelled on the exact rational   *)
(*    with ties to even. The only tie the enumerated schedules reach is    *)
(*    100 - 1/40000*200 = 99.995, which Python's round() also takes to     *)
(*    100.0.                                                               *)
(*  - overallScore is the rational [num, den] in hundredths (sum / len).   *)
(*  - Dates are day numbers.                                               *)
(***************************************************************************)
EXTENDS Integers, Sequences, FiniteSets

VARIABLES
    projects,     \* xer.projects: sequence of projects, each a sequence of activities
    activities,   \* self.activities: the snapshot flattened at construction
    result,       \* what the last analyze() returned (NoResult before the first call)
    prev,         \* what the analyze() before the last returned
    calls,        \* number of analyze() calls made on this analyzer
    ran,          \* the metric functions the last analyze() call ran
    now,          \* the clock datetime.utcnow() reads
    recIn,        \* a metrics mapping handed to _generate_recommendations directly
    recOut,       \* the list it returned
    recDone,      \* whether that call was made
    request,      \* the POST /analyze request being served (NoResult when none)
    response,     \* the response analyze_xer returned to it (NoResult before)
    tmp_files     \* temporary .xer files present on disk

vars ==
    <<projects, activities, result, prev, calls, ran, now, recIn, recOut, recDone,
      request, response, tmp_files>>

----------------------------------------------------------------------------
(* Bounds of the model *)

MaxActs == 2
MaxCalls == 2
BigSchedule == 40001

(* Program constants *)

HighFloatThreshold == 44
HighDurationThreshold == 44
ExcessiveLagThreshold == 20

None == <<>>
Some(v) == <<v>>
NoResult == [none |-> TRUE]

----------------------------------------------------------------------------
(* Python truthiness of the attributes the analyzer tests with `x and ...` *)

TruthyNum(x) == x # None /\ x[1] # 0
TruthyStr(x) == x # None /\ x[1] # ""
TruthyObj(x) == x # None
TruthyList(x) == x # None /\ x[1] # <<>>

Max0(x) == IF x > 0 THEN x ELSE 0

\* mutant: truncates instead of rounding
RoundDiv_Truncated(n, d) == n \div d

\* round-half-even of n/d for n >= 0, d > 0
RoundDiv(n, d) ==
    LET q == n \div d
        r == n % d
    IN  IF 2 * r < d THEN q
        ELSE IF 2 * r > d THEN q + 1
        ELSE IF q % 2 = 0 THEN q ELSE q + 1

\* round(max(0, 100 - (n / total * weight)), 2) in hundredths, total > 0
PenaltyScore(n, total, weight) ==
    RoundDiv(100 * Max0(100 * total - n * weight), total)

\* sum(s) for a sequence of numbers, by halves
RECURSIVE SumRange(_, _, _)
SumRange(s, lo, hi) ==
    IF lo > hi THEN 0
    ELSE IF lo = hi THEN s[lo]
    ELSE LET mid == (lo + hi) \div 2
         IN  SumRange(s, lo, mid) + SumRange(s, mid + 1, hi)

Sum(s) == SumRange(s, 1, Len(s))

\* the longest predecessor list of acts
MaxPreds(acts) ==
    LET lens == {Len(acts[i].predecessors) : i \in 1..Len(acts)} \cup {0}
    IN  CHOOSE m \in lens : \A k \in lens : k <= m

\* the positions <<i, j>> the nested loops
\* `for activity in acts: for rel in activity.predecessors` visit
RelPositions(acts) ==
    {p \in (1..Len(acts)) \X (1..MaxPreds(acts)) : p[2] <= Len(acts[p[1]].predecessors)}

\* the relationship `rel` at position p
RelAt(acts, p) == acts[p[1]].predecessors[p[2]]

\* sum(len(a.predecessors) for a in acts)
TotalRels(acts) == Cardinality(RelPositions(acts))

----------------------------------------------------------------------------
(* DCMAAnalyzer.__init__ *)

RECURSIVE Flatten(_)
Flatten(ps) == IF ps = <<>> THEN <<>> ELSE Head(ps) \o Flatten(Tail(ps))

----------------------------------------------------------------------------
(* The ten metric functions *)

\* mutant: only start milestones are excluded
IsRegular_StartOnly(a) == a.task_type # "TT_Mile"

IsRegular(a) == a.task_type \notin {"TT_FinMile", "TT_Mile"}

NoPredecessors(a) == a.predecessors = <<>>
NoSuccessors(a) == a.successors = <<>>

\* mutant: the max(0, ...) clamp is forgotten
MissingLogicScore_Unclamped(without_pred, without_succ, total) ==
    IF total > 0 THEN (100 * (100 * total - (without_pred + without_succ) * 100)) \div total
    ELSE 0

MissingLogicScore(without_pred, without_succ, total) ==
    IF total > 0 THEN PenaltyScore(without_pred + without_succ, total, 100) ELSE 0

RegularActivities(acts) == SelectSeq(acts, IsRegular)

_analyze_missing_logic(acts) ==
    LET regular_activities == RegularActivities(acts)
        without_pred == Len(SelectSeq(regular_activities, NoPredecessors))
        without_succ == Len(SelectSeq(regular_activities, NoSuccessors))
        total == Len(regular_activities)
    IN  [score |-> MissingLogicScore(without_pred, without_succ, total),
         tasksWithoutPredecessors |-> without_pred,
         tasksWithoutSuccessors |-> without_succ,
         totalTasks |-> total]

IsHighFloat(a) == TruthyNum(a.total_float) /\ a.total_float[1] > HighFloatThreshold

_analyze_high_float(acts) ==
    LET n == Len(SelectSeq(acts, IsHighFloat))
        total == Len(acts)
    IN  [score |-> IF total > 0 THEN PenaltyScore(n, total, 100) ELSE 0,
         highFloatTasks |-> n,
         threshold |-> HighFloatThreshold,
         totalTasks |-> total]

IsNegativeFloat(a) == TruthyNum(a.total_float) /\ a.total_float[1] < 0

_analyze_negative_float(acts) ==
    LET n == Len(SelectSeq(acts, IsNegativeFloat))
        total == Len(acts)
    IN  [score |-> IF n = 0 THEN 10000 ELSE PenaltyScore(n, total, 200),
         negativeFloatTasks |-> n,
         totalTasks |-> total]

IsHighDuration(a) == TruthyNum(a.duration) /\ a.duration[1] > HighDurationThreshold

_analyze_high_duration(acts) ==
    LET n == Len(SelectSeq(acts, IsHighDuration))
        total == Len(acts)
    IN  [score |-> IF total > 0 THEN PenaltyScore(n, total, 100) ELSE 0,
         highDurationTasks |-> n,
         threshold |-> HighDurationThreshold,
         totalTasks |-> total]

\* mutant: the presence test is forgotten, so None counts as a constraint
IsConstrained_NoPresenceTest(a) == a.constraint_type # Some("CS_ASAP")

IsConstrained(a) == TruthyStr(a.constraint_type) /\ a.constraint_type[1] # "CS_ASAP"

_analyze_hard_constraints(acts) ==
    LET n == Len(SelectSeq(acts, IsConstrained))
        total == Len(acts)
    IN  [score |-> IF total > 0 THEN PenaltyScore(n, total, 100) ELSE 0,
         constrainedTasks |-> n,
         totalTasks |-> total]

IsLead(rel) == TruthyNum(rel.lag) /\ rel.lag[1] < 0

\* mutant: the zero-denominator fallback is 0, as in the per-activity metrics
_analyze_leads_ZeroFallback(acts) ==
    LET lead_count == Cardinality({p \in RelPositions(acts) : IsLead(RelAt(acts, p))})
        total_rels == TotalRels(acts)
    IN  [score |-> IF total_rels > 0 THEN PenaltyScore(lead_count, total_rels, 100) ELSE 0,
         leadsFound |-> lead_count,
         totalRelationships |-> total_rels]

_analyze_leads(acts) ==
    LET lead_count == Cardinality({p \in RelPositions(acts) : IsLead(RelAt(acts, p))})
        total_rels == TotalRels(acts)
    IN  [score |-> IF total_rels > 0 THEN PenaltyScore(lead_count, total_rels, 100) ELSE 10000,
         leadsFound |-> lead_count,
         totalRelationships |-> total_rels]

IsExcessiveLag(rel) == TruthyNum(rel.lag) /\ rel.lag[1] > ExcessiveLagThreshold

_analyze_lags(acts) ==
    LET lag_count == Cardinality({p \in RelPositions(acts) : IsExcessiveLag(RelAt(acts, p))})
        total_rels == TotalRels(acts)
    IN  [score |-> IF total_rels > 0 THEN PenaltyScore(lag_count, total_rels, 100) ELSE 10000,
         excessiveLags |-> lag_count,
         threshold |-> ExcessiveLagThreshold]

IsNonFS(rel) == rel.link # "PR_FS"

_analyze_relationship_types(acts) ==
    LET non_fs_count == Cardinality({p \in RelPositions(acts) : IsNonFS(RelAt(acts, p))})
        total_rels == TotalRels(acts)
    IN  [score |-> IF total_rels > 0 THEN PenaltyScore(non_fs_count, total_rels, 50) ELSE 10000,
         nonFSRelationships |-> non_fs_count,
         totalRelationships |-> total_rels]

IsInvalidDates(a) ==
    TruthyObj(a.start) /\ TruthyObj(a.finish) /\ a.start[1] > a.finish[1]

HasBothDates(a) == TruthyObj(a.start) /\ TruthyObj(a.finish)

\* mutant: the denominator counts only the activities that have both dates
InvalidDatesTotal_Dated(acts) == Len(SelectSeq(acts, HasBothDates))

InvalidDatesTotal(acts) == Len(acts)

_analyze_invalid_dates(acts) ==
    LET invalid_dates == Len(SelectSeq(acts, IsInvalidDates))
        total == InvalidDatesTotal(acts)
    IN  [score |-> IF invalid_dates = 0 THEN 10000 ELSE PenaltyScore(invalid_dates, total, 200),
         invalidDates |-> invalid_dates,
         totalTasks |-> total]

HasResources(a) == TruthyList(a.resources) /\ Len(a.resources[1]) > 0

_analyze_resources(acts) ==
    LET n == Len(SelectSeq(acts, HasResources))
        total == Len(acts)
        resource_rate == IF total > 0 THEN RoundDiv(100 * (n * 100), total) ELSE 0
    IN  [score |-> resource_rate,
         tasksWithResources |-> n,
         totalTasks |-> total,
         resourceAssignmentRate |-> resource_rate]

----------------------------------------------------------------------------
(* DCMAAnalyzer._generate_recommendations: each `if` appends at most one entry.
   The message is kept as the values it interpolates. *)

AppendIf(recs, cond, rec) == IF cond THEN Append(recs, rec) ELSE recs

\* mutant: the Logic threshold is inclusive
LogicRule_Inclusive(m) == m.logic.score <= 8000

LogicRule(m) == m.logic.score < 8000
ScheduleRule(m) == m.negativeFloat.negativeFloatTasks > 0
FloatRule(m) == m.highFloat.score < 7000
DurationRule(m) == m.highDuration.score < 7000
ConstraintsRule(m) == m.hardConstraints.score < 8500
ResourcesRule(m) == m.resources.score < 5000

_generate_recommendations(m) ==
    LET r0 == <<>>
        r1 == AppendIf(r0, LogicRule(m),
                [category |-> "Logic", priority |-> "high",
                 message |-> <<m.logic.tasksWithoutPredecessors + m.logic.tasksWithoutSuccessors>>,
                 action |-> "Add predecessor and successor relationships to all activities"])
        r2 == AppendIf(r1, ScheduleRule(m),
                [category |-> "Schedule", priority |-> "high",
                 message |-> <<m.negativeFloat.negativeFloatTasks>>,
                 action |-> "Review and adjust schedule to resolve negative float"])
        r3 == AppendIf(r2, FloatRule(m),
                [category |-> "Float", priority |-> "medium",
                 message |-> <<m.highFloat.highFloatTasks, m.highFloat.threshold>>,
                 action |-> "Review task dependencies and network logic"])
        r4 == AppendIf(r3, DurationRule(m),
                [category |-> "Duration", priority |-> "medium",
                 message |-> <<m.highDuration.highDurationTasks, m.highDuration.threshold>>,
                 action |-> "Break down long-duration activities into smaller tasks"])
        r5 == AppendIf(r4, ConstraintsRule(m),
                [category |-> "Constraints", priority |-> "medium",
                 message |-> <<m.hardConstraints.constrainedTasks>>,
                 action |-> "Review and minimize use of hard constraints"])
        r6 == AppendIf(r5, ResourcesRule(m),
                [category |-> "Resources", priority |-> "low",
                 message |-> <<m.resources.resourceAssignmentRate>>,
                 action |-> "Improve resource loading and assignment"])
    IN  r6

----------------------------------------------------------------------------
(* DCMAAnalyzer.analyze *)

MetricNames ==
    <<"logic", "leads", "lags", "relationshipTypes", "hardConstraints",
      "highFloat", "negativeFloat", "highDuration", "invalidDates", "resources">>

ComputeMetrics(acts) ==
    [logic |-> _analyze_missing_logic(acts),
     leads |-> _analyze_leads(acts),
     lags |-> _analyze_lags(acts),
     relationshipTypes |-> _analyze_relationship_types(acts),
     hardConstraints |-> _analyze_hard_constraints(acts),
     highFloat |-> _analyze_high_float(acts),
     negativeFloat |-> _analyze_negative_float(acts),
     highDuration |-> _analyze_high_duration(acts),
     invalidDates |-> _analyze_invalid_dates(acts),
     resources |-> _analyze_resources(acts)]

\* mutant: the last metric is left out of the average
ScoresOf_Dropped(metrics) == [i \in 1..9 |-> metrics[MetricNames[i]].score]

\* scores = [m.get('score', 0) for m in metrics.values()]
ScoresOf(metrics) == [i \in 1..Len(MetricNames) |-> metrics[MetricNames[i]].score]

\* sum(scores) / len(scores) if scores else 0, as the rational num/den in hundredths
OverallScore(scores) ==
    IF scores # <<>> THEN [num |-> Sum(scores), den |-> Len(scores)]
    ELSE [num |-> 0, den |-> 1]

IsHigh(r) == r.priority = "high"

\* mutant: the guard tests for None, which the list never is
IsEmptySnapshot_IsNone(acts) == FALSE

IsEmptySnapshot(acts) == acts = <<>>

ErrorResult == [error |-> TRUE, message |-> "No activities found in XER file"]

analyze(acts, clock) ==
    IF IsEmptySnapshot(acts) THEN ErrorResult
    ELSE LET metrics == ComputeMetrics(acts)
             recommendations == _generate_recommendations(metrics)
         IN  [metrics |-> metrics,
              overallScore |-> OverallScore(ScoresOf(metrics)),
              recommendations |-> recommendations,
              summary |-> [totalActivities |-> Len(acts),
                           criticalIssues |-> Len(SelectSeq(recommendations, IsHigh)),
                           analyzedAt |-> clock]]

\* the metric functions an analyze() call on acts runs
MetricsRun(acts) ==
    IF IsEmptySnapshot(acts) THEN {} ELSE {MetricNames[i] : i \in 1..Len(MetricNames)}

\* mutant: the filtered list of _analyze_missing_logic is stored back
ActivitiesAfterAnalyze_Filtered(acts) == RegularActivities(acts)

\* self.activities after an analyze() call: no statement of analyze() or of
\* the functions it calls assigns to it or to an activity
ActivitiesAfterAnalyze(acts) == acts

----------------------------------------------------------------------------
(* The inputs: what the XER reader hands to the analyzer *)

Rel(link, lag) == [link |-> link, lag |-> lag]

Act(type, preds, succs, tf, dur, cstr, start, finish, res) ==
    [task_type |-> type, predecessors |-> preds, successors |-> succs,
     total_float |-> tf, duration |-> dur, constraint_type |-> cstr,
     start |-> start, finish |-> finish, resources |-> res]

FS0 == Rel("PR_FS", Some(0))

\* a task type, with or without a predecessor and a successor; nothing else wrong
Plain(type, preds, succs) ==
    Act(type, preds, succs, Some(0), Some(10), Some("CS_ASAP"), Some(1), Some(2),
        Some(<<"R1">>))

Base == Plain("TT_Task", <<FS0>>, <<FS0>>)

LogicPool ==
    {Plain(t, p, s) : t \in {"TT_Task", "TT_Mile", "TT_FinMile"},
                      p \in {<<>>, <<FS0>>}, s \in {<<>>, <<FS0>>}}

\* one attribute of Base changed at a time
Varied ==
    {[Base EXCEPT !.predecessors = <<Rel("PR_FS", Some(-3))>>],
     [Base EXCEPT !.predecessors = <<Rel("PR_SS", Some(25))>>],
     [Base EXCEPT !.total_float = Some(-5)],
     [Base EXCEPT !.total_float = Some(45)],
     [Base EXCEPT !.duration = Some(45)],
     [Base EXCEPT !.constraint_type = Some("CS_MSO")],
     [Base EXCEPT !.start = Some(2), !.finish = Some(1)],
     [Base EXCEPT !.resources = Some(<<>>)]}

\* every optional attribute absent
Absent ==
    Act("TT_Task", <<Rel("PR_FS", None)>>, <<FS0>>, None, None, None, None, None, None)

\* every value on its threshold; a start without a finish
Boundary ==
    Act("TT_Task", <<Rel("PR_FF", Some(20)), FS0>>, <<FS0>>, Some(44), Some(44),
        Some("CS_ASAP"), Some(2), None, Some(<<"R1", "R2">>))

\* everything wrong at once
AllBad ==
    Act("TT_Task", <<Rel("PR_SF", Some(-1))>>, <<>>, Some(-1), Some(100),
        Some("CS_MEO"), Some(9), Some(3), None)

Pool == LogicPool \cup Varied \cup {Absent, Boundary, AllBad}

\* spec scenario A: 10 activities, 2 milestones, 2 tasks lacking a predecessor
ScenarioA ==
    <<Plain("TT_Mile", <<>>, <<FS0>>), Plain("TT_Task", <<>>, <<FS0>>),
      Plain("TT_Task", <<>>, <<FS0>>), Base, Base, Base, Base, Base, Base,
      Plain("TT_FinMile", <<FS0>>, <<>>)>>

\* one inverted activity among an undated and a dated one
MixedDates == <<[Base EXCEPT !.start = Some(2), !.finish = Some(1)], Absent, Base>>

\* a large schedule with a single bad activity
Large(n) == [i \in 1..n |-> IF i = 1 THEN AllBad ELSE Base]

\* the ways a list of activities is spread over projects
ProjectsOf(acts) ==
    {<<acts>>}
    \cup {<<SubSeq(acts, 1, k), SubSeq(acts, k + 1, Len(acts))>> : k \in 0..Len(acts)}
    \cup (IF acts = <<>> THEN {<<>>} ELSE {})

\* the schedules checked beside the enumerated ones
Fixtures ==
    {<<ScenarioA>>, <<MixedDates>>,
     <<Large(BigSchedule)>>, <<Large(BigSchedule - 1)>>, <<Large(BigSchedule - 2)>>}

\* metrics mappings for a direct call of _generate_recommendations
MetricsInputs ==
    {[logic |-> [score |-> ls, tasksWithoutPredecessors |-> 1,
                 tasksWithoutSuccessors |-> 1, totalTasks |-> 5],
      leads |-> [score |-> o[1], leadsFound |-> 0, totalRelationships |-> 4],
      lags |-> [score |-> o[2], excessiveLags |-> 0, threshold |-> ExcessiveLagThreshold],
      relationshipTypes |-> [score |-> o[3], nonFSRelationships |-> 0,
                             totalRelationships |-> 4],
      hardConstraints |-> [score |-> hc, constrainedTasks |-> 1, totalTasks |-> 5],
      highFloat |-> [score |-> hf, highFloatTasks |-> 1,
                     threshold |-> HighFloatThreshold, totalTasks |-> 5],
      negativeFloat |-> [score |-> 10000 - 4000 * nf, negativeFloatTasks |-> nf,
                         totalTasks |-> 5],
      highDuration |-> [score |-> hd, highDurationTasks |-> 1,
                        threshold |-> HighDurationThreshold, totalTasks |-> 5],
      invalidDates |-> [score |-> o[4], invalidDates |-> 0, totalTasks |-> 5],
      resources |-> [score |-> rs, tasksWithResources |-> 1, totalTasks |-> 5,
                     resourceAssignmentRate |-> rs]] :
        ls \in {6000, 7999, 8000}, nf \in {0, 3}, hf \in {6999, 7000},
        hd \in {6999, 7000}, hc \in {8499, 8500}, rs \in {4999, 5000},
        o \in [1..4 -> {0, 10000}]}

----------------------------------------------------------------------------
(* The state machine *)

Constructed(ps) ==
    /\ projects = ps
    /\ activities = Flatten(ps)
    /\ result = NoResult
    /\ prev = NoResult
    /\ calls = 0
    /\ ran = {}
    /\ now = 0
    /\ recIn = NoResult
    /\ recOut = <<>>
    /\ recDone = FALSE
    /\ request = NoResult
    /\ response = NoResult
    /\ tmp_files = 0

\* every list of at most MaxActs activities of Pool, spread over projects in
\* every way, and the fixtures
Init ==
    \/ \E k \in 0..MaxActs : \E acts \in [1..k -> Pool] :
          \E ps \in ProjectsOf(acts) : Constructed(ps)
    \/ \E ps \in Fixtures : Constructed(ps)

InitRec ==
    /\ projects = <<>>
    /\ activities = <<>>
    /\ result = NoResult
    /\ prev = NoResult
    /\ calls = 0
    /\ ran = {}
    /\ now = 0
    /\ recIn \in MetricsInputs
    /\ recOut = <<>>
    /\ recDone = FALSE
    /\ request = NoResult
    /\ response = NoResult
    /\ tmp_files = 0

Analyze ==
    /\ calls < MaxCalls
    /\ result' = analyze(activities, now)
    /\ ran' = MetricsRun(activities)
    /\ prev' = result
    /\ calls' = calls + 1
    /\ now' = now + 1
    /\ activities' = ActivitiesAfterAnalyze(activities)
    /\ UNCHANGED <<projects, recIn, recOut, recDone, request, response, tmp_files>>

GenerateRecommendations ==
    /\ ~recDone
    /\ recIn # NoResult
    /\ recOut' = _generate_recommendations(recIn)
    /\ recDone' = TRUE
    /\ UNCHANGED <<projects, activities, result, prev, calls, ran, now, recIn,
                   request, response, tmp_files>>

Next == Analyze

NextRec == GenerateRecommendations

Spec == Init /\ [][Next]_vars

SpecRec == InitRec /\ [][NextRec]_vars

----------------------------------------------------------------------------
(* The POST /analyze endpoint, analyze_xer.

   The content of an uploaded file is kept as what the XER reader makes of
   it: an XER text that parses to a list of projects, the base64 encoding
   of a content, or something the reader rejects. The reader
   (xerparser.reader.Reader) is a library outside the repository: it is
   taken to return the projects of an XER text and to raise on anything
   else. Of a TASK row only the computed columns are kept. *)

XerText(ps) == [kind |-> "xer", projects |-> ps]
B64(c) == [kind |-> "b64", of |-> c]
Garbage == [kind |-> "garbage"]

\* the names the module binds before analyze_xer runs
ModuleNames ==
    {"Flask", "request", "jsonify", "CORS", "Reader", "datetime", "Dict", "List",
     "Any", "tempfile", "os", "app", "DCMAAnalyzer"}

\* the constructor each branch of analyze_xer calls on the temporary file
FileBranchParser == "Xer"
JsonBranchParser == "Reader"

\* base64.b64decode(file_content): anything but base64 text gives no XER text
b64decode(c) == IF c.kind = "b64" THEN c.of ELSE Garbage

Raised(type) == [ok |-> FALSE, type |-> type]
Returned(v) == [ok |-> TRUE, value |-> v]

\* evaluating `name(tmp_path)` on a temporary file holding content
CallParser(name, content) ==
    IF name \notin ModuleNames THEN Raised("NameError")
    ELSE IF content.kind = "xer" THEN Returned(content.projects)
    ELSE Raised("ReaderError")

\* a multipart upload under the field 'file'
FileRequest(c) ==
    [files |-> {"file"}, file |-> c, is_json |-> FALSE, fileContent |-> Garbage,
     base64 |-> FALSE]

\* a JSON body {"fileContent": c}, with or without a "base64" key
JsonRequest(c, b) ==
    [files |-> {}, file |-> Garbage, is_json |-> TRUE, fileContent |-> c, base64 |-> b]

\* neither a file nor JSON
EmptyRequest ==
    [files |-> {}, file |-> Garbage, is_json |-> FALSE, fileContent |-> Garbage,
     base64 |-> FALSE]

\* the try block up to `xer = ...`: the parser call of the branch taken
\* (every branch that reaches it has created one temporary file)
ParseUpload(req) ==
    IF "file" \in req.files THEN CallParser(FileBranchParser, req.file)
    ELSE CallParser(JsonBranchParser,
                    IF req.base64 THEN b64decode(req.fileContent) ELSE req.fileContent)

TaskRow(a) ==
    [target_drtn_hr_cnt |-> IF TruthyNum(a.duration) THEN a.duration[1] * 8 ELSE 0,
     total_float_hr_cnt |-> IF TruthyNum(a.total_float) THEN a.total_float[1] * 8 ELSE 0,
     target_start_date |-> a.start,
     target_end_date |-> a.finish]

\* for project in xer.projects: for activity in project.activities[:500]
TaskRows(ps) ==
    Flatten([i \in 1..Len(ps) |->
               [j \in 1..(IF Len(ps[i]) < 500 THEN Len(ps[i]) ELSE 500) |->
                  TaskRow(ps[i][j])]])

SuccessResponse(ps, dcma_result, clock) ==
    LET tasks == TaskRows(ps)
    IN  [status |-> 200,
         body |-> [success |-> TRUE,
                   data |-> [tables |-> [TASK |-> tasks],
                             tableList |-> <<"TASK">>,
                             meta |-> [fileType |-> "xer", recordCount |-> Len(tasks),
                                       tableCount |-> 1, parsedAt |-> clock,
                                       parser |-> "PyP6Xer v2.0"],
                             dcma |-> dcma_result]]]

\* the `except Exception` handler
ErrorResponse(type) == [status |-> 500, body |-> [error |-> TRUE, type |-> type]]

NoContentResponse ==
    [status |-> 400, body |-> [error |-> TRUE, message |-> "No file or content provided"]]

HasUpload(req) == "file" \in req.files \/ req.is_json

\* no file and no JSON: 400, nothing is parsed or analyzed
AnalyzeXerNoContent ==
    /\ request # NoResult
    /\ response = NoResult
    /\ ~HasUpload(request)
    /\ response' = NoContentResponse
    /\ UNCHANGED <<projects, activities, result, prev, calls, ran, now, recIn, recOut,
                   recDone, request, tmp_files>>

\* the parser call raises: os.unlink is skipped and the handler answers 500
AnalyzeXerRaises ==
    /\ request # NoResult
    /\ response = NoResult
    /\ HasUpload(request)
    /\ ~ParseUpload(request).ok
    /\ response' = ErrorResponse(ParseUpload(request).type)
    /\ tmp_files' = tmp_files + 1
    /\ UNCHANGED <<projects, activities, result, prev, calls, ran, now, recIn, recOut,
                   recDone, request>>

\* the parser returns: the file is removed, a DCMAAnalyzer is built and run
AnalyzeXerParsed ==
    /\ request # NoResult
    /\ response = NoResult
    /\ HasUpload(request)
    /\ ParseUpload(request).ok
    /\ projects' = ParseUpload(request).value
    /\ activities' = ActivitiesAfterAnalyze(Flatten(projects'))
    /\ result' = analyze(Flatten(projects'), now)
    /\ ran' = MetricsRun(Flatten(projects'))
    /\ prev' = result
    /\ calls' = calls + 1
    /\ now' = now + 2
    /\ response' = SuccessResponse(projects', result', now + 1)
    /\ UNCHANGED <<recIn, recOut, recDone, request, tmp_files>>

InitHttp ==
    /\ projects = <<>>
    /\ activities = <<>>
    /\ result = NoResult
    /\ prev = NoResult
    /\ calls = 0
    /\ ran = {}
    /\ now = 0
    /\ recIn = NoResult
    /\ recOut = <<>>
    /\ recDone = FALSE
    /\ response = NoResult
    /\ tmp_files = 0
    /\ \/ request = EmptyRequest
       \/ \E k \in 0..MaxActs : \E acts \in [1..k -> Pool] :
            \E c \in {XerText(<<acts>>), B64(XerText(<<acts>>)), Garbage} :
               \/ request = FileRequest(c)
               \/ \E b \in BOOLEAN : request = JsonRequest(c, b)

NextHttp == AnalyzeXerNoContent \/ AnalyzeXerRaises \/ AnalyzeXerParsed

SpecHttp == InitHttp /\ [][NextHttp]_vars

----------------------------------------------------------------------------
(* Properties *)

HasMetrics(r) == "metrics" \in DOMAIN r

TenMetrics ==
    {"logic", "leads", "lags", "relationshipTypes", "hardConstraints",
     "highFloat", "negativeFloat", "highDuration", "invalidDates", "resources"}

Abs(x) == IF x < 0 THEN -x ELSE x

\* c hundredths is num/den rounded to two decimals (num in hundredths)
RoundsTo(c, num, den) == 2 * Abs(c * den - num) <= den

Indices == 1..Len(activities)

Present(x) == x # <<>>

\* C1: after analyze() on a non-empty activity list every one of the ten
\* metric results has a score between 0 and 100 (0 and 10000 hundredths).
C1_ScoresInRange ==
    (calls > 0 /\ activities # <<>>) =>
        /\ HasMetrics(result)
        /\ DOMAIN result.metrics = TenMetrics
        /\ \A name \in TenMetrics :
              /\ result.metrics[name].score >= 0
              /\ result.metrics[name].score <= 10000

\* a task with neither predecessor nor successor: the Missing-Logic penalty
\* is 200 and the score is clamped to 0, while another score is 100
C1_Witness ==
    /\ calls > 0
    /\ HasMetrics(result)
    /\ result.metrics.logic.totalTasks > 0
    /\ result.metrics.logic.tasksWithoutPredecessors
         + result.metrics.logic.tasksWithoutSuccessors > result.metrics.logic.totalTasks
    /\ result.metrics.logic.score = 0
    /\ result.metrics.resources.score = 10000

\* C2: analyze() on an empty activity list (no projects, or only projects
\* without activities) returns exactly {error: true, message: "No activities
\* found in XER file"}: no metrics, overallScore, recommendations or summary
\* key, and no metric function is run.
C2_EmptyIsError ==
    (calls > 0 /\ Flatten(projects) = <<>>) =>
        /\ DOMAIN result = {"error", "message"}
        /\ result.error = TRUE
        /\ result.message = "No activities found in XER file"
        /\ ran = {}

\* analyze() was called on a model that has projects, all of them empty
C2_Witness ==
    /\ calls > 0
    /\ Len(projects) = 2
    /\ \A i \in 1..Len(projects) : projects[i] = <<>>
    /\ DOMAIN result = {"error", "message"}

\* C3: for a non-empty activity list overallScore is the sum of the ten
\* scores of the returned metrics mapping divided by 10.
C3_OverallIsMean ==
    (calls > 0 /\ activities # <<>>) =>
        /\ HasMetrics(result)
        /\ result.overallScore.den > 0
        /\ 10 * result.overallScore.num =
             result.overallScore.den *
               ( result.metrics.logic.score + result.metrics.leads.score
               + result.metrics.lags.score + result.metrics.relationshipTypes.score
               + result.metrics.hardConstraints.score + result.metrics.highFloat.score
               + result.metrics.negativeFloat.score + result.metrics.highDuration.score
               + result.metrics.invalidDates.score + result.metrics.resources.score )

\* an analysis whose ten scores differ and whose mean is not a whole number
\* of hundredths
C3_Witness ==
    /\ calls > 0
    /\ HasMetrics(result)
    /\ result.metrics.resources.score < result.metrics.leads.score
    /\ result.metrics.logic.score # result.metrics.resources.score
    /\ result.overallScore.num % 10 # 0

\* the fixed order of the recommendation rules
RuleOrder ==
    <<[category |-> "Logic", priority |-> "high"],
      [category |-> "Schedule", priority |-> "high"],
      [category |-> "Float", priority |-> "medium"],
      [category |-> "Duration", priority |-> "medium"],
      [category |-> "Constraints", priority |-> "medium"],
      [category |-> "Resources", priority |-> "low"]>>

Headings(recs) ==
    [i \in 1..Len(recs) |-> [category |-> recs[i].category, priority |-> recs[i].priority]]

\* C4: the list _generate_recommendations returns is the subsequence of
\* Logic(high), Schedule(high), Float(medium), Duration(medium),
\* Constraints(medium), Resources(low) whose condition holds, whatever the
\* Leads, Lags, Relationship-Types and Invalid-Dates results are; with
\* Missing-Logic score 60 and Negative-Float count 3 the high-priority
\* entries are exactly Logic then Schedule.
C4_Recommendations ==
    recDone =>
        LET Holds(e) ==
                CASE e.category = "Logic" -> recIn.logic.score < 8000
                  [] e.category = "Schedule" -> recIn.negativeFloat.negativeFloatTasks > 0
                  [] e.category = "Float" -> recIn.highFloat.score < 7000
                  [] e.category = "Duration" -> recIn.highDuration.score < 7000
                  [] e.category = "Constraints" -> recIn.hardConstraints.score < 8500
                  [] e.category = "Resources" -> recIn.resources.score < 5000
        IN  /\ Headings(recOut) = SelectSeq(RuleOrder, Holds)
            /\ (recIn.logic.score = 6000 /\ recIn.negativeFloat.negativeFloatTasks = 3) =>
                  Headings(SelectSeq(recOut, IsHigh)) =
                      <<[category |-> "Logic", priority |-> "high"],
                        [category |-> "Schedule", priority |-> "high"]>>

\* scenario E, with the four metrics that have no rule all scoring 0 and
\* every other rule off: exactly the two high-priority entries come back
C4_Witness ==
    /\ recDone
    /\ recIn.logic.score = 6000
    /\ recIn.negativeFloat.negativeFloatTasks = 3
    /\ recIn.leads.score = 0 /\ recIn.lags.score = 0
    /\ recIn.relationshipTypes.score = 0 /\ recIn.invalidDates.score = 0
    /\ Len(recOut) = 2
    /\ recOut[1].category = "Logic" /\ recOut[2].category = "Schedule"

IsMilestone(a) == a.task_type = "TT_Mile" \/ a.task_type = "TT_FinMile"

NonMilestones == {i \in Indices : ~IsMilestone(activities[i])}

LackPred == {i \in NonMilestones : Len(activities[i].predecessors) = 0}

LackSucc == {i \in NonMilestones : Len(activities[i].successors) = 0}

\* C5: Missing-Logic counts non-milestone activities only:
\* tasksWithoutPredecessors / tasksWithoutSuccessors are the non-milestones
\* with no predecessor / no successor, totalTasks the non-milestones, and
\* (when there is one) score = max(0, 100 - (both counts)/totalTasks*100)
\* to two decimals.
C5_MissingLogic ==
    HasMetrics(result) =>
        LET m == result.metrics.logic
            wp == Cardinality(LackPred)
            ws == Cardinality(LackSucc)
            total == Cardinality(NonMilestones)
        IN  /\ m.tasksWithoutPredecessors = wp
            /\ m.tasksWithoutSuccessors = ws
            /\ m.totalTasks = total
            /\ total > 0 =>
                 RoundsTo(m.score, 100 * Max0(100 * total - 100 * (wp + ws)), total)

\* scenario A: 10 activities, a start milestone without predecessor and a
\* finish milestone without successor, 2 tasks lacking a predecessor:
\* numerator 2, total 8, score 75
C5_Witness ==
    /\ HasMetrics(result)
    /\ Len(activities) = 10
    /\ Cardinality({i \in Indices : IsMilestone(activities[i])}) = 2
    /\ \E i \in Indices :
          IsMilestone(activities[i]) /\ Len(activities[i].predecessors) = 0
    /\ \E i \in Indices :
          IsMilestone(activities[i]) /\ Len(activities[i].successors) = 0
    /\ result.metrics.logic.tasksWithoutPredecessors = 2
    /\ result.metrics.logic.tasksWithoutSuccessors = 0
    /\ result.metrics.logic.totalTasks = 8
    /\ result.metrics.logic.score = 7500

Dated == {i \in Indices : Present(activities[i].start) /\ Present(activities[i].finish)}

Inverted == {i \in Dated : activities[i].start[1] > activities[i].finish[1]}

\* C6 as amended: the Invalid-Dates denominator (totalTasks) is the number of
\* all activities; the numerator counts the activities that have both dates
\* and start > finish; when it is positive,
\* score = max(0, 100 - invalid/total*200) to two decimals.
C6_InvalidDatesTotalIsAll ==
    HasMetrics(result) =>
        LET m == result.metrics.invalidDates
            inv == Cardinality(Inverted)
            total == Len(activities)
        IN  /\ m.invalidDates = inv
            /\ m.totalTasks = total
            /\ inv > 0 => RoundsTo(m.score, 100 * Max0(100 * total - 200 * inv), total)

\* C6 as stated: the denominator counts only the activities that have both
\* start and finish.
C6_Original ==
    (HasMetrics(result) /\ Cardinality(Inverted) > 0) =>
        LET m == result.metrics.invalidDates
            inv == Cardinality(Inverted)
            total == Cardinality(Dated)
        IN  RoundsTo(m.score, 100 * Max0(100 * total - 200 * inv), total)

\* an inverted activity beside an undated one, with a score above 0
C6_Witness ==
    /\ HasMetrics(result)
    /\ Cardinality(Inverted) > 0
    /\ Cardinality(Dated) < Len(activities)
    /\ result.metrics.invalidDates.score > 0

Negative ==
    {i \in Indices : Present(activities[i].total_float) /\ activities[i].total_float[1] < 0}

\* the penalty count/total*200 is at most 0.005, which round(.., 2) loses
PenaltyRoundsAway(count, total) == 40000 * count <= total

\* C7 as amended: the returned Negative-Float (Invalid-Dates) score is 100
\* exactly when the count is 0 or count/total <= 1/40000, where the penalty
\* is lost in the rounding to two decimals.
C7_HundredIffZeroOrRounded ==
    HasMetrics(result) =>
        /\ result.metrics.negativeFloat.score = 10000 <=>
             (Cardinality(Negative) = 0
                \/ PenaltyRoundsAway(Cardinality(Negative), Len(activities)))
        /\ result.metrics.invalidDates.score = 10000 <=>
             (Cardinality(Inverted) = 0
                \/ PenaltyRoundsAway(Cardinality(Inverted), Len(activities)))

\* C7 as stated: the returned score is 100 if and only if the count is 0.
C7_Original ==
    HasMetrics(result) =>
        /\ result.metrics.negativeFloat.score = 10000 <=> Cardinality(Negative) = 0
        /\ result.metrics.invalidDates.score = 10000 <=> Cardinality(Inverted) = 0

\* both directions happen: a schedule with one bad activity scoring below 100
\* is covered by the small lists; here one bad activity in a large schedule
C7_Witness ==
    /\ HasMetrics(result)
    /\ Cardinality(Negative) = 1
    /\ Cardinality(Inverted) = 1
    /\ result.metrics.negativeFloat.negativeFloatTasks = 1
    /\ result.metrics.negativeFloat.score = 10000
    /\ result.metrics.invalidDates.score = 10000

FullResult(r) ==
    /\ DOMAIN r = {"metrics", "overallScore", "recommendations", "summary"}
    /\ DOMAIN r.metrics = TenMetrics

\* C8: analyze() on a non-empty list completes with a full result; when no
\* activity has a predecessor, Leads, Lags and Relationship-Types score 100;
\* when every activity is a milestone, Missing-Logic scores 0 with
\* totalTasks = 0.
C8_ZeroDenominators ==
    (calls > 0 /\ activities # <<>>) =>
        /\ FullResult(result)
        /\ (\A i \in Indices : Len(activities[i].predecessors) = 0) =>
              /\ result.metrics.leads.score = 10000
              /\ result.metrics.lags.score = 10000
              /\ result.metrics.relationshipTypes.score = 10000
        /\ (\A i \in Indices : IsMilestone(activities[i])) =>
              /\ result.metrics.logic.score = 0
              /\ result.metrics.logic.totalTasks = 0

\* only milestones, none with a predecessor: both zero denominators at once
C8_Witness ==
    /\ calls > 0
    /\ activities # <<>>
    /\ \A i \in Indices : Len(activities[i].predecessors) = 0
    /\ \A i \in Indices : IsMilestone(activities[i])
    /\ FullResult(result)

\* C9: highFloatTasks counts exactly the activities with totalFloat present
\* and > 44, negativeFloatTasks those with totalFloat present and < 0,
\* highDurationTasks those with duration present and > 44, constrainedTasks
\* those with a constraint present and other than ASAP; an absent field is
\* never counted.
C9_AbsentNotCounted ==
    HasMetrics(result) =>
        /\ result.metrics.highFloat.highFloatTasks =
             Cardinality({i \in Indices : Present(activities[i].total_float)
                                          /\ activities[i].total_float[1] > 44})
        /\ result.metrics.negativeFloat.negativeFloatTasks = Cardinality(Negative)
        /\ result.metrics.highDuration.highDurationTasks =
             Cardinality({i \in Indices : Present(activities[i].duration)
                                          /\ activities[i].duration[1] > 44})
        /\ result.metrics.hardConstraints.constrainedTasks =
             Cardinality({i \in Indices : Present(activities[i].constraint_type)
                                          /\ activities[i].constraint_type[1] # "CS_ASAP"})

\* an activity with totalFloat, duration and constraintType all absent was
\* analyzed beside one that every one of the four numerators counts or not
C9_Witness ==
    /\ HasMetrics(result)
    /\ Len(activities) = 2
    /\ \E i \in Indices :
          /\ ~Present(activities[i].total_float)
          /\ ~Present(activities[i].duration)
          /\ ~Present(activities[i].constraint_type)
    /\ result.metrics.hardConstraints.constrainedTasks = 1
    /\ result.metrics.highDuration.highDurationTasks = 1
    /\ result.metrics.negativeFloat.negativeFloatTasks = 1
    /\ result.metrics.highFloat.highFloatTasks = 0

\* what two analyze() results must agree on
SameAnalysis(r1, r2) ==
    /\ DOMAIN r1 = DOMAIN r2
    /\ IF HasMetrics(r1)
       THEN /\ r1.metrics = r2.metrics
            /\ r1.overallScore = r2.overallScore
            /\ r1.recommendations = r2.recommendations
       ELSE r1 = r2

\* C10: an analyze() call leaves the activity list, every activity and
\* relationship, and the schedule model unchanged, and returns the same
\* metrics, overallScore and recommendations as the call before it.
C10_PureRead ==
    [][ /\ activities' = activities
        /\ projects' = projects
        /\ (calls > 0 /\ calls' = calls + 1) => SameAnalysis(result', result) ]_vars

\* two calls were made at different times on a non-empty snapshot
C10_Witness ==
    /\ calls = 2
    /\ HasMetrics(result) /\ HasMetrics(prev)
    /\ result.summary.analyzedAt # prev.summary.analyzedAt
    /\ result.metrics = prev.metrics
    /\ Len(result.recommendations) > 0
    /\ activities = Flatten(projects)

\* the request supplies a parseable XER: as the uploaded file, or as
\* fileContent (plain, or base64 with the "base64" key)
SuppliesXer(req) ==
    \/ "file" \in req.files /\ req.file.kind = "xer"
    \/ /\ req.files = {} /\ req.is_json
       /\ \/ ~req.base64 /\ req.fileContent.kind = "xer"
          \/ /\ req.base64 /\ req.fileContent.kind = "b64"
             /\ req.fileContent.of.kind = "xer"

\* the XER the request supplies
SuppliedProjects(req) ==
    IF "file" \in req.files THEN req.file.projects
    ELSE IF req.base64 THEN req.fileContent.of.projects
    ELSE req.fileContent.projects

\* the response is the success response around the analysis of ps
IsAnalysisOf(resp, ps) ==
    /\ resp.status = 200
    /\ "success" \in DOMAIN resp.body
    /\ resp.body.success = TRUE
    /\ SameAnalysis(resp.body.data.dcma, analyze(Flatten(ps), 0))

\* C11: a POST /analyze that supplies a parseable XER, as a multipart 'file'
\* upload or as a JSON fileContent, reaches DCMAAnalyzer.analyze() and is
\* answered with success = true and data.dcma holding the analysis of that
\* XER, the same for both forms.
C11_BothFormsAnalyzed ==
    (response # NoResult /\ SuppliesXer(request)) =>
        /\ calls = 1
        /\ IsAnalysisOf(response, SuppliedProjects(request))

\* the JSON half of C11, which the code satisfies
C11_JsonFormAnalyzed ==
    (response # NoResult /\ SuppliesXer(request) /\ request.is_json) =>
        /\ calls = 1
        /\ response.body.data.dcma = result
        /\ IsAnalysisOf(response, SuppliedProjects(request))

\* what the multipart form gets instead: a 500 for the undefined name Xer,
\* analyze() never called, the temporary file left behind
C11_FileFormFails ==
    (response # NoResult /\ "file" \in request.files) =>
        /\ response = ErrorResponse("NameError")
        /\ calls = 0
        /\ tmp_files = 1

====
